---- MODULE Spec2Model ----
(***************************************************************************)
(* Model of onlinejudge_verify/languages/rust.py: the Rust language        *)
(* backend of online-judge-verify-helper.                                  *)
(*                                                                         *)
(* A pathlib.Path is the sequence of its parts below the root "/": the     *)
(* root itself is <<>>.  A JSON object is a record, a JSON array a         *)
(* sequence, Python's None the string None.  A Python call either returns  *)
(* or raises: an outcome is a record whose field "raise" is None after a   *)
(* return and the exception's class after a raise.                         *)
(*                                                                         *)
(* The file system and the commands the code spawns (cargo, rustup,        *)
(* cargo-udeps) are the environment: their answers are inputs of the       *)
(* model.  Symbolic links have absolute targets and form no loop.          *)
(***************************************************************************)
EXTENDS Naturals, Sequences, FiniteSets

VARIABLES
    pc,         \* "idle": between calls; "done": a call ended; "failed": no instance
    backend,    \* self._list_dependencies_backend of the RustLanguage instance
    op,         \* the operation of the last call
    arg,        \* its arguments: [basedir, path]
    env,        \* what the file system and the external commands answered
    out,        \* its outcome: [raise, msg, value, events, opened, spawn, expanded]
    spawned,    \* `cargo metadata` processes spawned so far, per manifest
    calls       \* calls made so far by the framework in this process

vars == <<pc, backend, op, arg, env, out, spawned, calls>>

-----------------------------------------------------------------------------
(* Bounds of the model. *)

MaxCalls == 2
MaxDFiles == 2
MaxDFilesPruned == 1

-----------------------------------------------------------------------------
(* Python values. *)

None == "None"

\* `not x` for a value that is None or a string.
not(x) == x = None \/ x = ""

Ok(value) == [raise |-> None, msg |-> "", value |-> value]
Raise(type, msg) == [raise |-> type, msg |-> msg, value |-> None]

\* A value of a configuration: a str, an int, a dict or None, with its type.
Str(s) == [type |-> "str", str |-> s, items |-> <<>>]
Int == [type |-> "int", str |-> "", items |-> <<>>]
Dict(items) == [type |-> "dict", str |-> "", items |-> items]
NoneValue == [type |-> "NoneType", str |-> "", items |-> <<>>]

isinstance(x, type) == x.type = type

-----------------------------------------------------------------------------
(* Python dict, as the sequence of its <<key, value>> items in insertion   *)
(* order.                                                                  *)

dict_has(d, k) == \E i \in 1..Len(d) : d[i][1] = k

dict_get(d, k) == d[CHOOSE i \in 1..Len(d) : d[i][1] = k][2]

dict_set(d, k, v) ==
    IF dict_has(d, k)
    THEN [i \in 1..Len(d) |-> IF d[i][1] = k THEN <<k, v>> ELSE d[i]]
    ELSE Append(d, <<k, v>>)

dict_values(d) == [i \in 1..Len(d) |-> d[i][2]]

-----------------------------------------------------------------------------
(* The backends and RustLanguage.__init__ (lines 17-36 and 157-182).       *)
(* `config` is the argument (a dict or None), `file_config` the section    *)
(* languages.rust of the configuration file, which get_config() reads.     *)

_NoBackend == [class |-> "_NoBackend", toolchain |-> None]

\* The class attribute toolchain is 'nightly'; __init__ replaces it by an
\* argument that is not None.
_CargoUdeps(toolchain) ==
    [class |-> "_CargoUdeps",
     toolchain |-> IF toolchain # None THEN toolchain ELSE "nightly"]

__init__(config, file_config) ==
    LET c == IF config.type = "NoneType" THEN file_config ELSE config
    IN IF dict_has(c.items, "list_dependencies_backend")
       THEN LET list_dependencies_backend == dict_get(c.items, "list_dependencies_backend")
            IN IF ~isinstance(list_dependencies_backend, "dict")
               THEN Raise("RuntimeError", "list_dependencies_backend must be dict")
               ELSE IF ~dict_has(list_dependencies_backend.items, "kind")
                    THEN Raise("RuntimeError", "missing list_dependencies_backend.kind")
               ELSE LET kind == dict_get(list_dependencies_backend.items, "kind")
                    IN IF ~isinstance(kind, "str")
                       THEN Raise("RuntimeError", "list_dependencies_backend.kind must be str")
                       ELSE IF kind.str = "none" THEN Ok(_NoBackend)
                       ELSE IF kind.str = "cargo-udeps"
                            THEN IF ~dict_has(list_dependencies_backend.items, "toolchain")
                                 THEN Ok(_CargoUdeps(None))
                                 ELSE LET toolchain ==
                                            dict_get(list_dependencies_backend.items, "toolchain")
                                      IN IF isinstance(toolchain, "str")
                                         THEN Ok(_CargoUdeps(toolchain.str))
                                         ELSE Raise("RuntimeError",
                                                  "list_dependencies_backend.toolchain must be str")
                       ELSE Raise("RuntimeError",
                                  "expected none or cargo-udeps for list_dependencies_backend.kind")
       ELSE Ok(_NoBackend)

\* The toolchain the backend hands to _list_dependencies_by_crate.
cargo_udeps_toolchain_of(b) == IF b.class = "_NoBackend" THEN None ELSE b.toolchain

-----------------------------------------------------------------------------
(* pathlib. *)

\* Every part that occurs in a path of the model, in code-point order (the
\* order of Python's str comparison).
PartOrder ==
    << "..", "Cargo.toml", "base", "cli", "core", "debug", "deps", "ex-a.rs",
       "ex-l.rs", "examples", "ext", "gen.rs", "home", "lib.rs", "link",
       "m.rs", "main.rs", "mod.rs", "reg", "release", "shared", "src", "t.rs",
       "target", "tests", "tmp", "util.rs", "vendor", "ws", "x.rs", "z.rs" >>

PartRank(s) == CHOOSE i \in 1..Len(PartOrder) : PartOrder[i] = s

\* p < q for two paths: tuple comparison of their parts.
RECURSIVE PathLt(_, _)
PathLt(p, q) ==
    IF p = <<>> THEN q # <<>>
    ELSE IF q = <<>> THEN FALSE
    ELSE IF Head(p) = Head(q) THEN PathLt(Tail(p), Tail(q))
    ELSE PartRank(Head(p)) < PartRank(Head(q))

joinpath(p, q) == p \o q

parent(p) == IF p = <<>> THEN <<>> ELSE SubSeq(p, 1, Len(p) - 1)

\* path.parents: the ancestors, nearest first, down to the root.
parents(p) == [i \in 1..Len(p) |-> SubSeq(p, 1, Len(p) - i)]

\* parent.parts[-1]: the last part; the root's only part is "/".
last_part(p) == IF p = <<>> THEN "/" ELSE p[Len(p)]

\* Path.resolve(): the path made canonical.  The parts are walked from the
\* root: "." is dropped, ".." goes to the parent of what is walked so far
\* (the root is its own parent), and a prefix that is a symbolic link is
\* replaced by its target.  `symlinks` is the set of <<link, target>>.
is_symlink(p, symlinks) == \E l \in symlinks : l[1] = p

readlink(p, symlinks) == (CHOOSE l \in symlinks : l[1] = p)[2]

RECURSIVE realpath(_, _, _)
realpath(walked, rest, symlinks) ==
    IF rest = <<>> THEN walked
    ELSE IF Head(rest) = "." THEN realpath(walked, Tail(rest), symlinks)
    ELSE IF Head(rest) = ".." THEN realpath(parent(walked), Tail(rest), symlinks)
    ELSE IF is_symlink(Append(walked, Head(rest)), symlinks)
         THEN realpath(<<>>, readlink(Append(walked, Head(rest)), symlinks) \o Tail(rest),
                       symlinks)
    ELSE realpath(Append(walked, Head(rest)), Tail(rest), symlinks)

resolve(p, symlinks) == realpath(<<>>, p, symlinks)

\* Path.exists(): the file the path leads to, through the links, is there.
exists(p, e) == resolve(p, e.symlinks) \in e.exists

\* sorted(ret) for a list of paths: stable insertion sort, duplicates kept.
RECURSIVE insert_sorted(_, _)
insert_sorted(p, s) ==
    IF s = <<>> THEN <<p>>
    ELSE IF PathLt(p, Head(s)) THEN <<p>> \o s
    ELSE <<Head(s)>> \o insert_sorted(p, Tail(s))

RECURSIVE sorted(_)
sorted(ret) ==
    IF ret = <<>> THEN <<>>
    ELSE insert_sorted(ret[Len(ret)], sorted(SubSeq(ret, 1, Len(ret) - 1)))

-----------------------------------------------------------------------------
(* Target predicates and the target selector of a cargo command. *)

_is_lib(target) == target.kind = <<"lib">>

_is_bin(target) == target.kind = <<"bin">>

_is_bin_or_example_bin(target) ==
    _is_bin(target)
        \/ (target.kind = <<"example">> /\ target.crate_types = <<"bin">>)

_target_option(target) ==
    IF target.kind = <<"bin">> THEN <<"--bin", target.name>>
    ELSE IF target.kind = <<"example">> THEN <<"--example", target.name>>
    ELSE IF target.kind = <<"test">> THEN <<"--test", target.name>>
    ELSE IF target.kind = <<"bench">> THEN <<"--bench", target.name>>
    ELSE <<"--lib">>

-----------------------------------------------------------------------------
(* _find_target: the first (package, target) whose src_path is the path,   *)
(* as <<package, target>>; <<>> is Python's None.                          *)

\* find_in_targets, were the target matched on the directory of its entry
\* point instead of on the entry point.
RECURSIVE find_in_targets_by_directory(_, _, _)
find_in_targets_by_directory(package, targets, src_path) ==
    IF targets = <<>> THEN <<>>
    ELSE IF parent(Head(targets).src_path) = parent(src_path)
         THEN <<package, Head(targets)>>
    ELSE find_in_targets_by_directory(package, Tail(targets), src_path)

RECURSIVE find_in_targets(_, _, _)
find_in_targets(package, targets, src_path) ==
    IF targets = <<>> THEN <<>>
    ELSE IF Head(targets).src_path = src_path THEN <<package, Head(targets)>>
    ELSE find_in_targets(package, Tail(targets), src_path)

RECURSIVE find_in_packages(_, _)
find_in_packages(packages, src_path) ==
    IF packages = <<>> THEN <<>>
    ELSE LET hit == find_in_targets(Head(packages), Head(packages).targets, src_path)
         IN IF hit # <<>> THEN hit
            ELSE find_in_packages(Tail(packages), src_path)

_find_target(metadata, src_path) == find_in_packages(metadata.packages, src_path)

\* target[key] of a JSON object: KeyError when the key is absent.
has_key(object, key) == key \in DOMAIN object

_find_bin_or_example_bin(metadata, src_path) ==
    LET package_and_target == _find_target(metadata, src_path)
    IN IF package_and_target = <<>>
       THEN Raise("RuntimeError", "is not a main source file of any target")
       ELSE LET target == package_and_target[2]
            IN IF ~_is_bin_or_example_bin(target)
               THEN IF target.kind = <<"example">> /\ target.crate_types # <<"bin">>
                    THEN IF has_key(target, "crate_type")
                         THEN Raise("RuntimeError", "is a example target but its crate_type is")
                         ELSE Raise("KeyError", "crate_type")
                    ELSE Raise("RuntimeError", "is not a bin or example target")
               ELSE Ok(target)

-----------------------------------------------------------------------------
(* The world of the model: a workspace /home/ws of four local packages     *)
(* (app: lib, bin, two examples, a test; cli: bin; core: lib; base: lib),  *)
(* a registry package ext, and a directory /home/tmp under no manifest.    *)
(* /link is a symbolic link to /home, and /home/ws/src/vendor one to       *)
(* /home/ws/core/src.  cargo names the workspace by the path of the        *)
(* manifest it is given: /home/ws, or /link/ws through the link.           *)

\* The workspace of a manifest (or a file) of the world, as its path names it.
workspace_root_of(manifest_path) == SubSeq(manifest_path, 1, 2)

Target(root, kind, crate_type, name, src_path) ==
    [kind |-> <<kind>>, crate_types |-> <<crate_type>>, name |-> name,
     src_path |-> root \o src_path]

Package(name, dir, source, targets, dependencies) ==
    [id |-> name, name |-> name, manifest_path |-> dir \o <<"Cargo.toml">>,
     source |-> source, targets |-> targets, dependencies |-> dependencies]

\* A dependency as Cargo.toml declares it: the package, the alias it is
\* renamed to (or None) and its kind (None: normal, "build", "dev").
Decl(pkg, rename, kind) == [pkg |-> pkg, rename |-> rename, kind |-> kind]

\* package['dependencies'][i] and node['deps'][i] of a declaration.
Dependency(decl) == [name |-> decl.pkg, rename |-> decl.rename, kind |-> decl.kind]

NodeDep(decl) ==
    [name |-> IF decl.rename # None THEN decl.rename ELSE decl.pkg,
     pkg |-> decl.pkg, dep_kinds |-> <<[kind |-> decl.kind]>>]

Node(name, decls) == [id |-> name, deps |-> [i \in 1..Len(decls) |-> NodeDep(decls[i])]]

Dependencies(decls) == [i \in 1..Len(decls) |-> Dependency(decls[i])]

CliDecls == <<Decl("core", None, None), Decl("ext", None, None)>>

CoreDecls == <<Decl("base", None, None)>>

\* The document `cargo metadata` prints for the workspace `root` when app
\* declares `decls`.
Metadata(decls, root) ==
    [packages |->
        << Package("app", root, None,
               << Target(root, "lib", "lib", "app", <<"src", "lib.rs">>),
                  Target(root, "bin", "bin", "app", <<"src", "main.rs">>),
                  Target(root, "example", "bin", "ex-a", <<"examples", "ex-a.rs">>),
                  Target(root, "example", "lib", "ex-l", <<"examples", "ex-l.rs">>),
                  Target(root, "test", "bin", "t", <<"tests", "t.rs">>) >>,
               Dependencies(decls)),
           Package("cli", root \o <<"cli">>, None,
               << Target(root, "bin", "bin", "cli", <<"cli", "src", "main.rs">>) >>,
               Dependencies(CliDecls)),
           Package("core", root \o <<"core">>, None,
               << Target(root, "lib", "lib", "core", <<"core", "src", "lib.rs">>) >>,
               Dependencies(CoreDecls)),
           Package("base", root \o <<"base">>, None,
               << Target(root, "lib", "lib", "base", <<"base", "src", "lib.rs">>) >>,
               <<>>),
           Package("ext", <<"home", "reg", "ext">>, "registry+crates.io",
               << Target(<<"home", "reg", "ext">>, "lib", "lib", "ext",
                         <<"src", "lib.rs">>) >>,
               <<>>) >>,
     resolve |-> [nodes |-> << Node("app", decls), Node("cli", CliDecls),
                               Node("core", CoreDecls), Node("base", <<>>),
                               Node("ext", <<>>) >>],
     workspace_root |-> root,
     target_directory |-> root \o <<"target">>]

-----------------------------------------------------------------------------
(* _cargo_metadata.  env.exists is the set of the files there are,         *)
(* env.symlinks the symbolic links; env.metadata_ok is whether             *)
(* `cargo metadata` exits with 0 (check=True raises otherwise);            *)
(* env.decls is what app's Cargo.toml declares, which decides the document *)
(* the command prints.  The outcome carries in "spawn" the manifests for   *)
(* which the command was spawned by this call.                             *)

RECURSIVE first_manifest(_, _)
first_manifest(directories, e) ==
    IF directories = <<>> THEN None
    ELSE IF exists(joinpath(Head(directories), <<"Cargo.toml">>), e)
         THEN joinpath(Head(directories), <<"Cargo.toml">>)
    ELSE first_manifest(Tail(directories), e)

find_root_manifest_for_wd(cwd, e) == first_manifest(<<cwd>> \o parents(cwd), e)

\* The keys memoized by the lru_cache wrapper in use: the wrapper is built by
\* the decorator each time _cargo_metadata runs its body, so it starts empty.
cargo_metadata_cache == {}

\* The nested cargo_metadata(manifest_path): subprocess.run with check=True,
\* then json.loads of what the command printed.
cargo_metadata(manifest_path, e) ==
    IF ~e.metadata_ok
    THEN [raise |-> "CalledProcessError", msg |-> "cargo metadata", value |-> None,
          spawn |-> <<manifest_path>>]
    ELSE [raise |-> None, msg |-> "",
          value |-> Metadata(e.decls, workspace_root_of(manifest_path)),
          spawn |-> <<manifest_path>>]

_cargo_metadata(cwd, e) ==
    LET manifest_path == find_root_manifest_for_wd(cwd, e)
    IN IF manifest_path = None
       THEN [raise |-> "RuntimeError", msg |-> "Could not find Cargo.toml",
             value |-> None, spawn |-> <<>>]
       ELSE IF manifest_path \in cargo_metadata_cache
            THEN [raise |-> None, msg |-> "",
                  value |-> Metadata(e.decls, workspace_root_of(manifest_path)),
                  spawn |-> <<>>]
            ELSE cargo_metadata(manifest_path, e)

-----------------------------------------------------------------------------
(* The dependency-list artifacts (.d files).  env.d_files is the listing   *)
(* of <target_directory>/debug/deps: each file has the stem of its name    *)
(* (<stem>-<hash>.d), its st_mtime_ns and its lines; a line has the text   *)
(* left by rstrip(':'), as a path, whether it ends with ':' and whether    *)
(* the path is absolute.                                                   *)

\* name.replace("-", "_") on the target names of the model.
replace_hyphen(name) ==
    IF name = "ex-a" THEN "ex_a" ELSE IF name = "ex-l" THEN "ex_l" ELSE name

\* glob(f'{name}-*.d'): the indices of the matching files, in listing order.
RECURSIVE glob_d(_, _, _)
glob_d(d_files, stem, i) ==
    IF i > Len(d_files) THEN <<>>
    ELSE IF d_files[i].stem = stem THEN <<i>> \o glob_d(d_files, stem, i + 1)
    ELSE glob_d(d_files, stem, i + 1)

\* sorted(..., key=st_mtime_ns, reverse=True): stable, newest first.
RECURSIVE insert_by_mtime(_, _, _)
insert_by_mtime(d_files, i, s) ==
    IF s = <<>> THEN <<i>>
    ELSE IF d_files[i].mtime > d_files[Head(s)].mtime THEN <<i>> \o s
    ELSE <<Head(s)>> \o insert_by_mtime(d_files, i, Tail(s))

\* sorted_by_mtime, were the files left in the order of the listing.
in_listing_order(d_files, s) == s

RECURSIVE sorted_by_mtime(_, _)
sorted_by_mtime(d_files, s) ==
    IF s = <<>> THEN <<>>
    ELSE insert_by_mtime(d_files, s[Len(s)],
                         sorted_by_mtime(d_files, SubSeq(s, 1, Len(s) - 1)))

d_file_paths(metadata, target, d_files) ==
    sorted_by_mtime(d_files, glob_d(d_files, replace_hyphen(target.name), 1))

\* The list comprehension of line 96: each kept line joined to the
\* workspace root and resolved.
RECURSIVE rs_file_paths(_, _, _)
rs_file_paths(metadata, lines, e) ==
    IF lines = <<>> THEN <<>>
    ELSE IF Head(lines).colon /\ ~Head(lines).absolute
         THEN <<resolve(joinpath(metadata.workspace_root, Head(lines).text), e.symlinks)>>
                  \o rs_file_paths(metadata, Tail(lines), e)
    ELSE rs_file_paths(metadata, Tail(lines), e)

\* The for/else loop of lines 67-101: [ext, opened, matched].
RECURSIVE scan_d_files(_, _, _, _, _, _)
scan_d_files(metadata, d_files, order, path, opened, e) ==
    IF order = <<>> THEN [ext |-> <<>>, opened |-> opened, matched |-> FALSE]
    ELSE LET rs == rs_file_paths(metadata, d_files[Head(order)].lines, e)
         IN IF SubSeq(rs, 1, IF Len(rs) < 1 THEN Len(rs) ELSE 1) = <<path>>
            THEN [ext |-> Tail(rs), opened |-> Append(opened, Head(order)),
                  matched |-> TRUE]
            ELSE scan_d_files(metadata, d_files, Tail(order), path,
                              Append(opened, Head(order)), e)

-----------------------------------------------------------------------------
(* The dependencies of the target's package (lines 103-106).               *)

package_ids(metadata) == {metadata.packages[i].id : i \in 1..Len(metadata.packages)}

\* {package['id']: package for package in metadata['packages']}
packages_by_id(metadata) ==
    [id \in package_ids(metadata) |->
        LET last == CHOOSE i \in 1..Len(metadata.packages) :
                        /\ metadata.packages[i].id = id
                        /\ \A j \in (i + 1)..Len(metadata.packages) :
                               metadata.packages[j].id # id
        IN metadata.packages[last]]

\* any(not dep_kind['kind'] or dep_kind['kind'] == 'build' for dep_kind in ...)
is_normal_or_build(node_dep) ==
    \E i \in 1..Len(node_dep.dep_kinds) :
        not(node_dep.dep_kinds[i].kind) \/ node_dep.dep_kinds[i].kind = "build"

\* is_local_normal_build, were the source of the package not looked at.
is_normal_build_of_any_source(metadata, node_dep) == is_normal_or_build(node_dep)

\* The condition of the dict comprehension of line 104 on one dependency.
is_local_normal_build(metadata, node_dep) ==
    /\ not(packages_by_id(metadata)[node_dep.pkg].source)
    /\ is_normal_or_build(node_dep)

RECURSIVE collect_deps(_, _, _)
collect_deps(metadata, deps, acc) ==
    IF deps = <<>> THEN acc
    ELSE collect_deps(metadata, Tail(deps),
             IF is_local_normal_build(metadata, Head(deps))
             THEN dict_set(acc, Head(deps).name, Head(deps).pkg)
             ELSE acc)

RECURSIVE collect_nodes(_, _, _, _)
collect_nodes(metadata, nodes, package, acc) ==
    IF nodes = <<>> THEN acc
    ELSE collect_nodes(metadata, Tail(nodes), package,
             IF Head(nodes).id = package.id
             THEN collect_deps(metadata, Head(nodes).deps, acc)
             ELSE acc)

has_lib(package) == \E i \in 1..Len(package.targets) : _is_lib(package.targets[i])

normal_build_node_deps(metadata, package, target) ==
    LET deps == collect_nodes(metadata, metadata.resolve.nodes, package, <<>>)
    IN IF _is_bin_or_example_bin(target) /\ has_lib(package)
       THEN dict_set(deps, package.name, package.id)
       ELSE deps

-----------------------------------------------------------------------------
(* The packages cargo-udeps reports as unused (lines 108-126).             *)
(* env.which_udeps is whether shutil.which finds cargo-udeps;              *)
(* env.udeps_stdout is what `cargo udeps` prints: "" (nothing, no JSON),   *)
(* "{}" (a JSON object without "unused_deps") or "report", a report whose  *)
(* "unused_deps" has the values env.unused_deps.  The exit status of the   *)
(* command is not looked at (check=False).                                 *)

renames_of(package) ==
    {package.dependencies[i].rename : i \in
        {j \in 1..Len(package.dependencies) : ~not(package.dependencies[j].rename)}}

\* The package ids the inner loop of lines 124-126 adds for one name.
ids_named(metadata, deps, name_in_toml) ==
    {dict_values(deps)[i] : i \in
        {j \in 1..Len(deps) :
            packages_by_id(metadata)[dict_values(deps)[j]].name = name_in_toml}}

\* The loop of lines 120-126 over the names of one report entry.
RECURSIVE add_unused_names(_, _, _, _, _)
add_unused_names(metadata, deps, renames, names, acc) ==
    IF names = <<>> THEN Ok(acc)
    ELSE IF Head(names) \in renames
         THEN IF dict_has(deps, Head(names))
              THEN add_unused_names(metadata, deps, renames, Tail(names),
                                    acc \cup {dict_get(deps, Head(names))})
              ELSE Raise("KeyError", Head(names))
    ELSE add_unused_names(metadata, deps, renames, Tail(names),
                          acc \cup ids_named(metadata, deps, Head(names)))

\* The loop of lines 118-126 over the report's entries.
RECURSIVE add_unused_deps(_, _, _, _, _, _)
add_unused_deps(metadata, package, deps, renames, unused_deps, acc) ==
    IF unused_deps = <<>> THEN Ok(acc)
    ELSE IF Head(unused_deps).manifest_path = package.manifest_path
         THEN LET r == add_unused_names(metadata, deps, renames,
                           Head(unused_deps).normal \o Head(unused_deps).build, acc)
              IN IF r.raise # None THEN r
                 ELSE add_unused_deps(metadata, package, deps, renames,
                                      Tail(unused_deps), r.value)
    ELSE add_unused_deps(metadata, package, deps, renames, Tail(unused_deps), acc)

\* Lines 108-126: the outcome, with the commands it ran in "events".
unused_packages(metadata, package, target, deps, cargo_udeps_toolchain, e) ==
    IF cargo_udeps_toolchain # None /\ _is_bin_or_example_bin(target)
    THEN IF ~e.which_udeps
         THEN [raise |-> "RuntimeError", msg |-> "cargo-udeps not in PATH",
               value |-> {}, events |-> <<"which cargo-udeps">>]
         ELSE IF e.udeps_stdout = ""
              THEN [raise |-> "JSONDecodeError", msg |-> "Expecting value",
                    value |-> {}, events |-> <<"which cargo-udeps", "cargo udeps">>]
         ELSE IF e.udeps_stdout = "{}"
              THEN [raise |-> "KeyError", msg |-> "unused_deps",
                    value |-> {}, events |-> <<"which cargo-udeps", "cargo udeps">>]
         ELSE LET r == add_unused_deps(metadata, package, deps, renames_of(package),
                                       e.unused_deps, {})
              IN [raise |-> r.raise, msg |-> r.msg,
                  value |-> IF r.raise = None THEN r.value ELSE {},
                  events |-> <<"which cargo-udeps", "cargo udeps">>]
    ELSE [raise |-> None, msg |-> "", value |-> {}, events |-> <<>>]

-----------------------------------------------------------------------------
(* The library entry points of the dependencies kept (lines 128-132).      *)

RECURSIVE lib_src_paths(_)
lib_src_paths(targets) ==
    IF targets = <<>> THEN <<>>
    ELSE IF _is_lib(Head(targets))
         THEN <<Head(targets).src_path>> \o lib_src_paths(Tail(targets))
    ELSE lib_src_paths(Tail(targets))

RECURSIVE expand_deps(_, _, _)
expand_deps(metadata, ids, unused) ==
    IF ids = <<>> THEN <<>>
    ELSE IF Head(ids) \notin unused
         THEN lib_src_paths(packages_by_id(metadata)[Head(ids)].targets)
                  \o expand_deps(metadata, Tail(ids), unused)
    ELSE expand_deps(metadata, Tail(ids), unused)

-----------------------------------------------------------------------------
(* _list_dependencies_by_crate.  env.check_ok is whether `cargo check`     *)
(* exits with 0.  The outcome carries, besides the value returned or the   *)
(* exception raised: "events", the warnings logged and the commands run,   *)
(* in order; "opened", the .d files read, in order; "spawn", as for        *)
(* _cargo_metadata; "expanded", the paths appended by lines 128-132.       *)

Outcome(raise, msg, value, events, opened, spawn, expanded) ==
    [raise |-> raise, msg |-> msg, value |-> value, events |-> events,
     opened |-> opened, spawn |-> spawn, expanded |-> expanded]

\* is_generated, were the manifest looked for in the directory named
\* "target" instead of in its parent.
is_generated_by_own_manifest(path, e) ==
    \E i \in 1..Len(path) :
        /\ exists(joinpath(parents(path)[i], <<"Cargo.toml">>), e)
        /\ last_part(parents(path)[i]) = "target"

\* The condition of the loop of lines 42-45.
is_generated(path, e) ==
    \E i \in 1..Len(path) :
        /\ exists(joinpath(parent(parents(path)[i]), <<"Cargo.toml">>), e)
        /\ last_part(parents(path)[i]) = "target"

metadata_events(m) == IF m.spawn # <<>> THEN <<"cargo metadata">> ELSE <<>>

\* Lines 54-133: the target is found.
list_dependencies_of_target(path, metadata, package, target, cargo_udeps_toolchain, e, m) ==
    IF ~e.check_ok
    THEN Outcome("CalledProcessError", "cargo check", <<>>,
                 metadata_events(m) \o <<"cargo check">>, <<>>, m.spawn, <<>>)
    ELSE LET scan == scan_d_files(metadata, e.d_files,
                         d_file_paths(metadata, target, e.d_files), path, <<>>, e)
             ret == <<path>> \o scan.ext
             ev1 == metadata_events(m) \o <<"cargo check", "glob">>
                        \o (IF scan.matched THEN <<>> ELSE <<"warning: no .d file">>)
             deps == normal_build_node_deps(metadata, package, target)
             unused == unused_packages(metadata, package, target, deps,
                                       cargo_udeps_toolchain, e)
             expanded == expand_deps(metadata, dict_values(deps), unused.value)
         IN IF unused.raise # None
            THEN Outcome(unused.raise, unused.msg, <<>>, ev1 \o unused.events,
                         scan.opened, m.spawn, <<>>)
            ELSE Outcome(None, "", sorted(ret \o expanded), ev1 \o unused.events,
                         scan.opened, m.spawn, expanded)

_list_dependencies_by_crate(path0, basedir, cargo_udeps_toolchain, e) ==
    LET path == joinpath(basedir, path0)
    IN IF is_generated(path, e)
       THEN Outcome(None, "", <<path>>, <<"warning: generated file">>, <<>>, <<>>, <<>>)
       ELSE LET m == _cargo_metadata(parent(path), e)
            IN IF m.raise # None
               THEN Outcome(m.raise, m.msg, <<>>, metadata_events(m), <<>>, m.spawn, <<>>)
               ELSE LET package_and_target == _find_target(m.value, path)
                    IN IF package_and_target = <<>>
                       THEN Outcome(None, "", <<path>>, metadata_events(m), <<>>,
                                    m.spawn, <<>>)
                       ELSE list_dependencies_of_target(path, m.value,
                                package_and_target[1], package_and_target[2],
                                cargo_udeps_toolchain, e, m)

-----------------------------------------------------------------------------
(* RustLanguage.is_verification_file and RustLanguageEnvironment.          *)
(* env.build_ok is whether `cargo build --release` exits with 0.           *)

is_verification_file(path0, basedir, e) ==
    LET path == joinpath(basedir, path0)
        m == _cargo_metadata(parent(path), e)
    IN IF m.raise # None
       THEN Outcome(m.raise, m.msg, <<>>, metadata_events(m), <<>>, m.spawn, <<>>)
       ELSE LET package_and_target == _find_target(m.value, path)
            IN IF package_and_target = <<>>
               THEN Outcome(None, "", FALSE, metadata_events(m), <<>>, m.spawn, <<>>)
               ELSE Outcome(None, "", _is_bin_or_example_bin(package_and_target[2]),
                            metadata_events(m), <<>>, m.spawn, <<>>)

compile(path0, basedir, e) ==
    LET path == joinpath(basedir, path0)
        m == _cargo_metadata(parent(path), e)
    IN IF m.raise # None
       THEN Outcome(m.raise, m.msg, <<>>, metadata_events(m), <<>>, m.spawn, <<>>)
       ELSE LET t == _find_bin_or_example_bin(m.value, path)
            IN IF t.raise # None
               THEN Outcome(t.raise, t.msg, <<>>, metadata_events(m), <<>>, m.spawn, <<>>)
               ELSE IF ~e.build_ok
                    THEN Outcome("CalledProcessError", "cargo build", <<>>,
                                 metadata_events(m) \o <<"cargo build">>, <<>>,
                                 m.spawn, <<>>)
                    ELSE Outcome(None, "", <<>>, metadata_events(m) \o <<"cargo build">>,
                                 <<>>, m.spawn, <<>>)

get_execute_command(path0, basedir, e) ==
    LET path == joinpath(basedir, path0)
        m == _cargo_metadata(parent(path), e)
    IN IF m.raise # None
       THEN Outcome(m.raise, m.msg, <<>>, metadata_events(m), <<>>, m.spawn, <<>>)
       ELSE LET t == _find_bin_or_example_bin(m.value, path)
            IN IF t.raise # None
               THEN Outcome(t.raise, t.msg, <<>>, metadata_events(m), <<>>, m.spawn, <<>>)
               ELSE Outcome(None, "",
                        <<m.value.target_directory \o <<"release">>
                              \o (IF _is_bin(t.value) THEN <<>> ELSE <<"examples">>)
                              \o <<t.value.name>>>>,
                        metadata_events(m), <<>>, m.spawn, <<>>)

-----------------------------------------------------------------------------
(* The configurations, the calls and their worlds: the files that exist,   *)
(* the symbolic links, the paths asked about, what app declares, the .d    *)
(* files, what cargo-udeps prints.                                         *)

\* config['list_dependencies_backend'] = {items}
WithBackend(items) == Dict(<< <<"list_dependencies_backend", Dict(items)>> >>)

\* The section languages.rust of a configuration, as a dict.
Configs ==
    { Dict(<<>>),
      Dict(<< <<"list_dependencies_backend", Int>> >>),
      WithBackend(<<>>),
      WithBackend(<< <<"kind", Int>> >>),
      WithBackend(<< <<"kind", Str("none")>> >>),
      WithBackend(<< <<"kind", Str("cargo-udeps")>> >>),
      WithBackend(<< <<"kind", Str("cargo-udeps")>>, <<"toolchain", Str("stable")>> >>),
      WithBackend(<< <<"kind", Str("cargo-udeps")>>, <<"toolchain", Int>> >>),
      WithBackend(<< <<"kind", Str("bogus")>> >>) }

Exists ==
    { <<"home", "ws", "Cargo.toml">>,
      <<"home", "ws", "cli", "Cargo.toml">>,
      <<"home", "ws", "core", "Cargo.toml">>,
      <<"home", "ws", "base", "Cargo.toml">>,
      <<"home", "reg", "ext", "Cargo.toml">> }

Symlinks ==
    { << <<"link">>, <<"home">> >>,
      << <<"home", "ws", "src", "vendor">>, <<"home", "ws", "core", "src">> >> }

\* The paths the framework asks about, relative to the directory it runs in.
QueryPaths ==
    { <<"ws", "src", "main.rs">>,           \* bin of app
      <<"ws", "src", "lib.rs">>,            \* lib of app
      <<"ws", "src", "util.rs">>,           \* a module: no target's entry point
      <<"ws", "examples", "ex-a.rs">>,      \* example, crate type bin
      <<"ws", "examples", "ex-l.rs">>,      \* example, crate type lib
      <<"ws", "tests", "t.rs">>,            \* test
      <<"ws", "cli", "src", "main.rs">>,    \* bin of cli, a package without lib
      <<"ws", "core", "src", "lib.rs">>,    \* lib of core
      <<"ws", "target", "debug", "gen.rs">>,    \* under the build-output directory
      <<"ws", "src", "target", "z.rs">>,    \* under a directory that is only named so
      <<"tmp", "x.rs">> }                   \* under no manifest

\* The calls: from /home, and from /link, which leads to /home through the
\* symbolic link.
Queries ==
    {[basedir |-> <<"home">>, path |-> p] : p \in QueryPaths}
        \cup {[basedir |-> <<"link">>, path |-> <<"ws", "src", "main.rs">>]}

\* How app declares core and ext.
AppCoreDecls ==
    { <<>>,
      <<Decl("core", None, None)>>,
      <<Decl("core", "c", None)>>,
      <<Decl("core", "c", "dev")>>,
      <<Decl("core", None, "build")>> }

AppExtDecls ==
    { <<>>,
      <<Decl("ext", None, None)>>,
      <<Decl("ext", "x", None)>> }

AppDecls == {c \o x : c \in AppCoreDecls, x \in AppExtDecls}

\* Lines of a .d file.
RuleLine ==
    [text |-> <<"home", "ws", "target", "debug", "deps">>, colon |-> FALSE,
     absolute |-> TRUE]

BlankLine == [text |-> <<>>, colon |-> FALSE, absolute |-> FALSE]

AbsLine ==
    [text |-> <<"home", "reg", "ext", "src", "lib.rs">>, colon |-> TRUE,
     absolute |-> TRUE]

RelLine(p) == [text |-> p, colon |-> TRUE, absolute |-> FALSE]

\* The .d files that may lie in the directory, by the stem of their name and
\* their lines: of app's bin, with a module reached through "..";
\* of app's lib (also named app), with a module reached through the symbolic
\* link src/vendor; of a bin of app that names its entry point through ".."
\* and mounts lib.rs as a module; of cli's bin.
DNamed ==
    { [stem |-> "app",
       lines |-> <<RuleLine, BlankLine, RelLine(<<"src", "main.rs">>),
                   RelLine(<<"src", "..", "shared", "m.rs">>),
                   RelLine(<<"src", "util.rs">>)>>],
      [stem |-> "app",
       lines |-> <<RuleLine, BlankLine, RelLine(<<"src", "lib.rs">>),
                   RelLine(<<"src", "vendor", "lib.rs">>)>>],
      [stem |-> "app",
       lines |-> <<RuleLine, RelLine(<<"src", "..", "src", "main.rs">>),
                   RelLine(<<"src", "lib.rs">>)>>],
      [stem |-> "cli",
       lines |-> <<RuleLine, AbsLine, RelLine(<<"cli", "src", "main.rs">>),
                   RelLine(<<"cli", "src", "util.rs">>)>>] }

Mtimes == {1, 2}

DFiles == {[stem |-> d.stem, mtime |-> t, lines |-> d.lines] : d \in DNamed, t \in Mtimes}

\* The listings of the directory with at most `max` files.
DListings(max) == UNION {[1..k -> DFiles] : k \in 0..max}

\* The names cargo-udeps may flag, and its reports: no entry, or one entry
\* that flags one name for the manifest of app or of cli.
FlagNames == {"core", "c", "x", "ext"}

ReportManifests ==
    {<<"home", "ws", "Cargo.toml">>, <<"home", "ws", "cli", "Cargo.toml">>}

Reports ==
    {<<>>}
        \cup {<<[manifest_path |-> mp, normal |-> <<n>>, build |-> <<>>]>> :
                 mp \in ReportManifests, n \in FlagNames}
        \cup {<<[manifest_path |-> mp, normal |-> <<>>, build |-> <<n>>]>> :
                 mp \in ReportManifests, n \in FlagNames}

\* What `cargo udeps` prints: a report that flags nothing; or nothing, a JSON
\* object without "unused_deps", or any report.
NothingUnused == [stdout |-> "report", unused_deps |-> <<>>]

UdepsOutputs ==
    {[stdout |-> "", unused_deps |-> <<>>], [stdout |-> "{}", unused_deps |-> <<>>]}
        \cup {[stdout |-> "report", unused_deps |-> r] : r \in Reports}

DefaultEnv ==
    [exists |-> Exists, symlinks |-> Symlinks, metadata_ok |-> TRUE, decls |-> <<>>,
     check_ok |-> TRUE, d_files |-> <<>>, which_udeps |-> TRUE,
     udeps_stdout |-> "report", unused_deps |-> <<>>, build_ok |-> TRUE]

-----------------------------------------------------------------------------
(* The framework's calls.  What the world answers is chosen as the call    *)
(* asks for it; an answer the call never asks for stays as in DefaultEnv.  *)

Asked(r, what) == \E i \in 1..Len(r.events) : r.events[i] = what

\* The answers of `cargo metadata` to the call that ended as r under the
\* default answers: a failure, or the document of one of the declarations.
MetadataAnswers(r) ==
    IF Asked(r, "cargo metadata")
    THEN {[ok |-> FALSE, decls |-> <<>>]} \cup {[ok |-> TRUE, decls |-> d] : d \in AppDecls}
    ELSE {[ok |-> TRUE, decls |-> <<>>]}

\* The answers to the command or the look-up `what`, `answers` if it is run.
Answers(r, what, answers, default) == IF Asked(r, what) THEN answers ELSE {default}

NoArg == [basedir |-> <<>>, path |-> <<>>]

NoOutcome == Outcome(None, "", <<>>, <<>>, <<>>, <<>>, <<>>)

\* No instance: __init__ raised.
NoInstance == [class |-> "None", toolchain |-> None]

\* The manifests by the paths the calls find them under.
ManifestPaths == Exists \cup {<<"link">> \o Tail(m) : m \in Exists}

\* spawned, after the processes in `spawn` were started.
RECURSIVE count_spawn(_, _)
count_spawn(counts, spawn) ==
    IF spawn = <<>> THEN counts
    ELSE count_spawn([counts EXCEPT ![Head(spawn)] = @ + 1], Tail(spawn))

Finish(name, q, e, r) ==
    /\ pc' = "done"
    /\ op' = name
    /\ arg' = q
    /\ env' = e
    /\ out' = r
    /\ spawned' = count_spawn(spawned, r.spawn)
    /\ calls' = calls + 1
    /\ UNCHANGED backend

\* RustLanguage(config=config), the configuration file holding file_config:
\* the instance with its backend, or no instance and the RuntimeError.
Init ==
    \E config \in Configs \cup {NoneValue}, file_config \in Configs :
        LET r == __init__(config, file_config)
        IN /\ pc = IF r.raise = None THEN "idle" ELSE "failed"
           /\ backend = IF r.raise = None THEN r.value ELSE NoInstance
           /\ op = IF r.raise = None THEN "" ELSE "__init__"
           /\ arg = NoArg
           /\ env = DefaultEnv
           /\ out = Outcome(r.raise, r.msg, <<>>, <<>>, <<>>, <<>>, <<>>)
           /\ spawned = [m \in ManifestPaths |-> 0]
           /\ calls = 0

\* RustLanguage.list_dependencies, through the backend of the instance, as
\* one of the first `limit` calls of the process, the directory listing and
\* the output of cargo-udeps drawn from `listings` and `outputs`.
ListDependencies(limit, listings, outputs) ==
    /\ pc = "idle"
    /\ calls < limit
    /\ \E q \in Queries :
         LET run(e) == _list_dependencies_by_crate(q.path, q.basedir,
                           cargo_udeps_toolchain_of(backend), e)
         IN \E md \in MetadataAnswers(run(DefaultEnv)) :
              LET e1 == [DefaultEnv EXCEPT !.metadata_ok = md.ok, !.decls = md.decls]
              IN \E ck \in Answers(run(e1), "cargo check", BOOLEAN, TRUE) :
                   LET e2 == [e1 EXCEPT !.check_ok = ck]
                   IN \E df \in Answers(run(e2), "glob", listings, <<>>) :
                        LET e3 == [e2 EXCEPT !.d_files = df]
                        IN \E wh \in Answers(run(e3), "which cargo-udeps", BOOLEAN, TRUE) :
                             LET e4 == [e3 EXCEPT !.which_udeps = wh]
                             IN \E ud \in Answers(run(e4), "cargo udeps", outputs,
                                                  NothingUnused) :
                                  LET e5 == [e4 EXCEPT !.udeps_stdout = ud.stdout,
                                                       !.unused_deps = ud.unused_deps]
                                  IN Finish("list_dependencies", q, e5, run(e5))

IsVerificationFile(limit) ==
    /\ pc = "idle"
    /\ calls < limit
    /\ \E q \in Queries :
         \E md \in MetadataAnswers(is_verification_file(q.path, q.basedir, DefaultEnv)) :
           LET e1 == [DefaultEnv EXCEPT !.metadata_ok = md.ok, !.decls = md.decls]
           IN Finish("is_verification_file", q, e1,
                     is_verification_file(q.path, q.basedir, e1))

Compile(limit) ==
    /\ pc = "idle"
    /\ calls < limit
    /\ \E q \in Queries :
         \E md \in MetadataAnswers(compile(q.path, q.basedir, DefaultEnv)) :
           LET e1 == [DefaultEnv EXCEPT !.metadata_ok = md.ok, !.decls = md.decls]
           IN \E ok \in Answers(compile(q.path, q.basedir, e1), "cargo build", BOOLEAN, TRUE) :
                LET e2 == [e1 EXCEPT !.build_ok = ok]
                IN Finish("compile", q, e2, compile(q.path, q.basedir, e2))

GetExecuteCommand(limit) ==
    /\ pc = "idle"
    /\ calls < limit
    /\ \E q \in Queries :
         \E md \in MetadataAnswers(get_execute_command(q.path, q.basedir, DefaultEnv)) :
           LET e1 == [DefaultEnv EXCEPT !.metadata_ok = md.ok, !.decls = md.decls]
           IN Finish("get_execute_command", q, e1,
                     get_execute_command(q.path, q.basedir, e1))

\* The framework takes the outcome and goes on.
Return ==
    /\ pc = "done"
    /\ pc' = "idle"
    /\ op' = ""
    /\ arg' = NoArg
    /\ env' = DefaultEnv
    /\ out' = NoOutcome
    /\ UNCHANGED <<backend, spawned, calls>>

\* One call on a fresh instance, against every world of the model: the
\* directory holding up to MaxDFiles .d files while cargo-udeps flags
\* nothing, or up to MaxDFilesPruned while it prints any of its outputs.
Next ==
    \/ ListDependencies(1, DListings(MaxDFiles), {NothingUnused})
    \/ ListDependencies(1, DListings(MaxDFilesPruned), UdepsOutputs)
    \/ IsVerificationFile(1)
    \/ Compile(1)
    \/ GetExecuteCommand(1)
    \/ Return

Spec == Init /\ [][Next]_vars

\* A session of up to MaxCalls calls on one instance, the build-output
\* directory holding no .d file and cargo-udeps flagging nothing.
NextSession ==
    \/ ListDependencies(MaxCalls, {<<>>}, {NothingUnused})
    \/ IsVerificationFile(MaxCalls)
    \/ Compile(MaxCalls)
    \/ GetExecuteCommand(MaxCalls)
    \/ Return

SpecSession == Init /\ [][NextSession]_vars

-----------------------------------------------------------------------------
(* Vocabulary of the properties.                                           *)

Resolved == pc = "done" /\ op = "list_dependencies"

Returned == out.raise = None

\* Pruning of unused dependencies is on for the instance.
Pruning == backend.class = "_CargoUdeps"

\* The queried file.
File == arg.basedir \o arg.path

Elements(s) == {s[i] : i \in 1..Len(s)}

\* Some ancestor directory is named "target" and its parent holds a manifest.
UnderBuildOutput ==
    \E k \in 1..(Len(File) - 1) :
        /\ File[k] = "target"
        /\ exists(SubSeq(File, 1, k - 1) \o <<"Cargo.toml">>, env)

\* Some directory above the file holds a manifest.
UnderManifest ==
    \E k \in 0..(Len(File) - 1) : exists(SubSeq(File, 1, k) \o <<"Cargo.toml">>, env)

\* The metadata command gave the package graph.
GraphObtained == env.metadata_ok

\* cargo-udeps printed a well-formed report.
WellFormedReport == env.udeps_stdout = "report"

\* The document `cargo metadata` prints in the world of the call.
TheMetadata == Metadata(env.decls, workspace_root_of(File))

AllPackages == Elements(TheMetadata.packages)

\* The (package, target) pairs whose entry point is the queried file.
Owners ==
    UNION {{<<p, t>> : t \in {u \in Elements(p.targets) : u.src_path = File}} :
              p \in AllPackages}

Executable(t) ==
    t.kind = <<"bin">> \/ (t.kind = <<"example">> /\ t.crate_types = <<"bin">>)

IsLocal(p) == p.source = None

LibPaths(p) == {t.src_path : t \in {u \in Elements(p.targets) : u.kind = <<"lib">>}}

PackageOf(id) == CHOOSE p \in AllPackages : p.id = id

\* q is a normal or build dependency of p in the resolved graph.
DependsOn(p, q) ==
    \E n \in Elements(TheMetadata.resolve.nodes) :
        /\ n.id = p.id
        /\ \E d \in Elements(n.deps) :
              /\ d.pkg = q.id
              /\ \E k \in Elements(d.dep_kinds) : k.kind \in {None, "build"}

\* The packages reachable from those of `from` by one more dependency edge,
\* and by any number of them.
RECURSIVE ReachableFrom(_)
ReachableFrom(from) ==
    LET more == from \cup {q \in AllPackages : \E p \in from : DependsOn(p, q)}
    IN IF more = from THEN from ELSE ReachableFrom(more)

Closure(p) == ReachableFrom({q \in AllPackages : DependsOn(p, q)})

-----------------------------------------------------------------------------
(* C1.  The list returned by list_dependencies is sorted and holds no path *)
(* twice.                                                                  *)

C1_SortedWithoutDuplicates ==
    (Resolved /\ Returned) =>
        /\ \A i, j \in 1..Len(out.value) : i < j => ~PathLt(out.value[j], out.value[i])
        /\ \A i, j \in 1..Len(out.value) : i # j => out.value[i] # out.value[j]

(* C2.  Without pruning, the result holds the library entry point of every *)
(* local package in the dependency closure of the owning package (the      *)
(* direct dependencies and the dependencies of dependencies), and the      *)
(* owning package's own library when the target is a binary or an example  *)
(* compiled to a binary.                                                   *)

C2_WholeClosureIncluded ==
    (Resolved /\ Returned /\ ~Pruning) =>
        \A pt \in Owners :
            /\ \A q \in Closure(pt[1]) :
                   IsLocal(q) => LibPaths(q) \subseteq Elements(out.value)
            /\ Executable(pt[2]) => LibPaths(pt[1]) \subseteq Elements(out.value)

(* C3.  With pruning, cargo-udeps having printed a well-formed report, for *)
(* a binary or example-binary target of manifest M and every local         *)
(* normal/build dependency D of its package: D's library entry points are  *)
(* not in the result when an entry of the report for M flags D, under its  *)
(* alias or its package name, and are in the result when no such entry     *)
(* flags D.                                                                *)

FlaggedFor(p, d) ==
    \E u \in Elements(env.unused_deps) :
        /\ u.manifest_path = p.manifest_path
        /\ \E n \in Elements(u.normal) \cup Elements(u.build) :
              \/ n = d.name
              \/ \E dep \in Elements(p.dependencies) : dep.name = d.name /\ dep.rename = n

C3_PrunedExactlyWhenFlagged ==
    (Resolved /\ Asked(out, "cargo udeps") /\ WellFormedReport) =>
        \A pt \in Owners :
            \A d \in {q \in AllPackages : IsLocal(q) /\ DependsOn(pt[1], q)} :
                IF FlaggedFor(pt[1], d)
                THEN Returned => LibPaths(d) \cap Elements(out.value) = {}
                ELSE Returned /\ LibPaths(d) \subseteq Elements(out.value)

(* C4.  Whatever the package graph obtained, the .d files and the          *)
(* well-formed report of cargo-udeps, a call of list_dependencies fails    *)
(* with ManifestNotFound, CompileError or MissingTool, or returns a list   *)
(* that holds the file.                                                    *)

ManifestNotFound == out.raise = "RuntimeError" /\ out.msg = "Could not find Cargo.toml"

CompileError == out.raise = "CalledProcessError" /\ out.msg = "cargo check"

MissingTool == out.raise = "RuntimeError" /\ out.msg = "cargo-udeps not in PATH"

C4_FailsAsDocumentedOrReturnsFile ==
    (Resolved /\ GraphObtained /\ WellFormedReport) =>
        \/ ManifestNotFound
        \/ CompileError
        \/ MissingTool
        \/ (Returned /\ File \in Elements(out.value))

(* C5.  In one process `cargo metadata` is spawned at most once for each   *)
(* manifest.                                                               *)

C5_MetadataSpawnedOncePerManifest == \A m \in DOMAIN spawned : spawned[m] <= 1

(* C6.  The .d files of the target are read newest first and only after    *)
(* `cargo check` succeeded; the entries appended are those of the newest   *)
(* file led by the queried path; no other file contributes; when no file   *)
(* is led by the queried path a warning is logged and none contributes.    *)
(* An entry is the path parsed from a line of the file: the line joined to *)
(* the workspace root, in canonical form; the queried path is the path as  *)
(* it was asked for.                                                       *)

Entries(i) == rs_file_paths(TheMetadata, env.d_files[i].lines, env)

LedByFile(i) ==
    LET entries == Entries(i)
    IN entries # <<>> /\ entries[1] = File

\* The files of the listing that the target's pattern matches.
ArtifactsOfTarget ==
    LET stems == {replace_hyphen(pt[2].name) : pt \in Owners}
    IN {i \in 1..Len(env.d_files) : env.d_files[i].stem \in stems}

CandidatesAmong(artifacts) == {i \in artifacts : LedByFile(i)}

Candidates == CandidatesAmong(ArtifactsOfTarget)

Before(a, b) ==
    \E i, j \in 1..Len(out.events) : i < j /\ out.events[i] = a /\ out.events[j] = b

C6_NewestArtifactLedByFile ==
    Resolved =>
        /\ out.opened # <<>> => (env.check_ok /\ Before("cargo check", "glob"))
        /\ \A i, j \in 1..Len(out.opened) :
               i < j => env.d_files[out.opened[i]].mtime >= env.d_files[out.opened[j]].mtime
        /\ LET artifacts == ArtifactsOfTarget
               candidates == CandidatesAmong(artifacts)
           IN /\ Elements(out.opened) \subseteq artifacts
              /\ Asked(out, "glob") =>
                    IF candidates = {}
                    THEN /\ Asked(out, "warning: no .d file")
                         /\ Elements(out.opened) = artifacts
                         /\ Returned => out.value = sorted(<<File>> \o out.expanded)
                    ELSE LET k == out.opened[Len(out.opened)]
                         IN /\ ~Asked(out, "warning: no .d file")
                            /\ k \in candidates
                            /\ \A c \in candidates :
                                  env.d_files[c].mtime <= env.d_files[k].mtime
                            /\ \A i \in 1..(Len(out.opened) - 1) :
                                  out.opened[i] \notin candidates
                            /\ Returned =>
                                  out.value =
                                    sorted(<<File>> \o Tail(Entries(k)) \o out.expanded)

\* Two files led by the queried path, the older listed first and with other
\* entries: the newer one alone was read.
C6_Witness ==
    /\ Resolved /\ Returned
    /\ \E i, j \in Candidates :
          /\ i < j
          /\ env.d_files[i].mtime < env.d_files[j].mtime
          /\ Entries(i) # Entries(j)
          /\ out.opened = <<j>>

(* C7.  With the package graph obtained, compile and get_execute_command   *)
(* get the target of a binary or of an example compiled to a binary, and   *)
(* fail with NotAnExecutableTarget (a RuntimeError) otherwise: no target,  *)
(* an example not compiled to a binary, a target of another kind.  They    *)
(* fail with nothing else there.                                           *)

C7_NotAnExecutableTarget ==
    (/\ pc = "done"
     /\ op \in {"compile", "get_execute_command"}
     /\ UnderManifest
     /\ GraphObtained) =>
        IF \E pt \in Owners : Executable(pt[2])
        THEN out.raise \in {None, "CalledProcessError"}
        ELSE /\ out.raise = "RuntimeError"
             /\ out.msg =
                  IF Owners = {} THEN "is not a main source file of any target"
                  ELSE IF \E pt \in Owners : pt[2].kind = <<"example">>
                       THEN "is a example target but its crate_type is"
                  ELSE "is not a bin or example target"

(* C8.  The expansion of the dependencies adds no library entry point of a *)
(* package from a non-local source, whatever cargo-udeps reports.          *)

C8_NoExternalLibrary ==
    Resolved =>
        \A p \in AllPackages :
            ~IsLocal(p) => LibPaths(p) \cap Elements(out.expanded) = {}

\* The package depends on ext, cargo-udeps flagged a name, and the expansion
\* added a library.
C8_Witness ==
    /\ Resolved /\ Returned
    /\ \E pt \in Owners : \E p \in AllPackages : ~IsLocal(p) /\ DependsOn(pt[1], p)
    /\ env.unused_deps # <<>>
    /\ out.expanded # <<>>

(* C9.  For a file under the build-output directory of a manifest,         *)
(* list_dependencies returns the file alone and logs a warning, and runs   *)
(* no command and reads no .d file.                                        *)

C9_GeneratedFileShortCircuit ==
    (Resolved /\ UnderBuildOutput) =>
        /\ Returned
        /\ out.value = <<File>>
        /\ out.events = <<"warning: generated file">>
        /\ out.opened = <<>>
        /\ out.spawn = <<>>

C9_Witness == Resolved /\ UnderBuildOutput /\ out.value = <<File>>

(* C10.  For a file under a manifest, not under the build-output           *)
(* directory, that is the entry point of no target of the package graph    *)
(* obtained, list_dependencies returns the file alone without              *)
(* `cargo check`, .d file or cargo-udeps, with pruning on or off.          *)

C10_NotAnEntryPoint ==
    (Resolved /\ ~UnderBuildOutput /\ UnderManifest /\ GraphObtained /\ Owners = {}) =>
        /\ Returned
        /\ out.value = <<File>>
        /\ \A i \in 1..Len(out.events) : out.events[i] = "cargo metadata"
        /\ out.opened = <<>>

C10_Witness ==
    /\ Resolved /\ ~UnderBuildOutput /\ UnderManifest /\ GraphObtained /\ Owners = {}
    /\ Pruning
    /\ out.value = <<File>>

====
